---- MODULE Spec2Model ----
(***************************************************************************)
(* Weekly Grocery Optimizer (src/app.py): the Streamlit session state, the *)
(* sidebar and tab handlers, and the Generate request: requirement         *)
(* aggregation, catalog join, MILP construction, solve, result extraction. *)
(*                                                                         *)
(* Representation.  Text that the code only compares for equality (Food,   *)
(* Package Description, Food Basket) is a TLA+ string.  Text that the code *)
(* lower-cases or sorts (Age_Sex_Group, member gender, Store) is a         *)
(* sequence of code points, so that str.lower() and sorted() are computed. *)
(* Prices are held in cents, so round(x, 2) keeps them.  A solved variable *)
(* value (a float in the code) is held in thousandths.                     *)
(***************************************************************************)
EXTENDS Integers, Sequences, FiniteSets, TLC

VARIABLES
    household_members,   \* st.session_state.household_members
    cost_df,             \* st.session_state.cost_df      (None or a table)
    nutrition_df,        \* st.session_state.nutrition_df (None or a table)
    check_df,            \* st.session_state.check_df     (None or a table)
    stock_df,            \* st.session_state.stock_df     (None or a table)
    outcome,             \* what tab 3 rendered in the last script run ("rerun": not reached)
    built,               \* the request constructed the LpProblem
    solved,              \* the request called model.solve()
    required_nutrients,  \* the request's required_nutrients dict
    data,                \* the request's joined catalog (None until merged)
    status,              \* LpStatus[status], or "none"
    buy_val,             \* buy_qty[food].value() per package description
    results,             \* the request's results list
    totals,              \* total_cost / total_items / total_weight, or None
    by_store,            \* the per-store groups rendered, in order
    grocery_uploader,    \* the file held by the "grocery_uploader" widget
    stock_uploader,      \* the file held by the "stock_uploader" widget
    rerun_queued,        \* the last run halted in st.rerun(); the rerun has not started
    generate_drawn,      \* the page has the Generate button (drawn at line 264)
    first_run            \* history: the session's first request, inputs and result

session == <<household_members, cost_df, nutrition_df, check_df, stock_df>>
request == <<outcome, built, solved, required_nutrients, data, status,
             buy_val, results, totals, by_store>>
vars == <<household_members, cost_df, nutrition_df, check_df, stock_df,
          outcome, built, solved, required_nutrients, data, status,
          buy_val, results, totals, by_store, grocery_uploader, stock_uploader,
          rerun_queued, generate_drawn, first_run>>

\* a session table is None or a DataFrame (its rows in index order)
None == [isNone |-> TRUE, rows |-> <<>>]
DataFrame(rows) == [isNone |-> FALSE, rows |-> rows]

(***************************************************************************)
(* Bounds of the model.                                                    *)
(***************************************************************************)
MaxMembers == 2
\* roster size in the specification that repeats a request (SpecRepeat)
MaxRepeatMembers == 2

(***************************************************************************)
(* Text as code points.                                                    *)
(***************************************************************************)
male == <<109, 97, 108, 101>>
female == <<102, 101, 109, 97, 108, 101>>
Male == <<77, 97, 108, 101>>
Female == <<70, 101, 109, 97, 108, 101>>
MALE == <<77, 65, 76, 69>>
Costco == <<67, 111, 115, 116, 99, 111>>
Kroger == <<75, 114, 111, 103, 101, 114>>
aldi == <<97, 108, 100, 105>>

\* str.lower() on ASCII text
LowerChar(c) == IF c >= 65 /\ c <= 90 THEN c + 32 ELSE c
Lower(s) == [i \in 1..Len(s) |-> LowerChar(s[i])]

\* Python's str "<": code point by code point, a proper prefix is smaller
RECURSIVE StrLess(_, _)
StrLess(a, b) ==
    IF Len(b) = 0 THEN FALSE
    ELSE IF Len(a) = 0 THEN TRUE
    ELSE IF Head(a) # Head(b) THEN Head(a) < Head(b)
    ELSE StrLess(Tail(a), Tail(b))

\* sorted(S) for a set of strings
RECURSIVE Sorted(_)
Sorted(S) ==
    IF S = {} THEN <<>>
    ELSE LET m == CHOOSE x \in S : \A y \in S : y = x \/ StrLess(x, y)
         IN <<m>> \o Sorted(S \ {m})

(***************************************************************************)
(* Inputs: the tables a workbook may hold.                                 *)
(***************************************************************************)
Ages == {25, 60}
Genders == {male, female}

CheckA ==
  DataFrame(
    << [Age_Sex_Group |-> Male, Min_Age |-> 19, Max_Age |-> 50,
        Min_Calorie |-> 2000, min_Protein |-> 50, min_Carbohydrate |-> 300, min_Fat |-> 70],
       [Age_Sex_Group |-> Female, Min_Age |-> 19, Max_Age |-> 50,
        Min_Calorie |-> 1600, min_Protein |-> 40, min_Carbohydrate |-> 250, min_Fat |-> 60],
       [Age_Sex_Group |-> Male, Min_Age |-> 51, Max_Age |-> 120,
        Min_Calorie |-> 1800, min_Protein |-> 50, min_Carbohydrate |-> 280, min_Fat |-> 60],
       [Age_Sex_Group |-> Female, Min_Age |-> 51, Max_Age |-> 120,
        Min_Calorie |-> 1500, min_Protein |-> 40, min_Carbohydrate |-> 230, min_Fat |-> 50] >>)

\* upper-case group label, two overlapping male ranges (60 is in both), no female row
CheckB ==
  DataFrame(
    << [Age_Sex_Group |-> MALE, Min_Age |-> 19, Max_Age |-> 60,
        Min_Calorie |-> 2000, min_Protein |-> 50, min_Carbohydrate |-> 300, min_Fat |-> 70],
       [Age_Sex_Group |-> male, Min_Age |-> 60, Max_Age |-> 120,
        Min_Calorie |-> 1800, min_Protein |-> 45, min_Carbohydrate |-> 280, min_Fat |-> 60] >>)

NutritionA ==
  DataFrame(
    << [Food |-> "Rice", kcal |-> 14000, Protein_g |-> 350, Carbs_g |-> 2100, Fat_g |-> 490,
        Food_Basket |-> "Grains & Carbohydrate Sources", Max_quantity |-> 10],
       [Food |-> "Soda", kcal |-> 2000, Protein_g |-> 0, Carbs_g |-> 500, Fat_g |-> 100,
        Food_Basket |-> "Beverages", Max_quantity |-> 10],
       [Food |-> "Egg", kcal |-> 7000, Protein_g |-> 350, Carbs_g |-> 700, Fat_g |-> 490,
        Food_Basket |-> "Protein", Max_quantity |-> 3],
       [Food |-> "Oil", kcal |-> 8000, Protein_g |-> 0, Carbs_g |-> 1400, Fat_g |-> 900,
        Food_Basket |-> "Fats, Nuts & Seeds", Max_quantity |-> 1],
       [Food |-> "Bread", kcal |-> 7000, Protein_g |-> 150, Carbs_g |-> 1500, Fat_g |-> 100,
        Food_Basket |-> "Grains & Carbohydrate Sources", Max_quantity |-> 1] >>)

CostOne ==
  DataFrame(
    << [Food |-> "Rice", Package_Description |-> "Rice 5lb", Store |-> Kroger,
        price |-> 500, lb |-> 5] >>)

CostSoda ==
  DataFrame(
    << [Food |-> "Soda", Package_Description |-> "Soda 2L", Store |-> Costco,
        price |-> 1000, lb |-> 4] >>)

\* three stores, two equally priced breads, one Food ("Candy") without a nutrition row
CostMulti ==
  DataFrame(
    << [Food |-> "Egg", Package_Description |-> "Eggs 12ct", Store |-> Kroger,
        price |-> 300, lb |-> 2],
       [Food |-> "Bread", Package_Description |-> "Bread loaf", Store |-> Costco,
        price |-> 200, lb |-> 1],
       [Food |-> "Oil", Package_Description |-> "Olive Oil 1L", Store |-> aldi,
        price |-> 800, lb |-> 2],
       [Food |-> "Bread", Package_Description |-> "Bread sliced", Store |-> aldi,
        price |-> 200, lb |-> 1],
       [Food |-> "Candy", Package_Description |-> "Candy bag", Store |-> Costco,
        price |-> 100, lb |-> 1] >>)

\* two cost rows share one Package Description
CostDup ==
  DataFrame(
    << [Food |-> "Bread", Package_Description |-> "Pack A", Store |-> Kroger,
        price |-> 200, lb |-> 1],
       [Food |-> "Egg", Package_Description |-> "Pack A", Store |-> Costco,
        price |-> 300, lb |-> 2] >>)

StockZero ==
  DataFrame(
    << [Package_Description |-> "Rice 5lb", Quantity_in_Stock_lb |-> 0] >>)

StockSome ==
  DataFrame(
    << [Package_Description |-> "Eggs 12ct", Quantity_in_Stock_lb |-> 1],
       [Package_Description |-> "Soda 2L", Quantity_in_Stock_lb |-> 1] >>)

StockFull ==
  DataFrame(
    << [Package_Description |-> "Rice 5lb", Quantity_in_Stock_lb |-> 2],
       [Package_Description |-> "Pack A", Quantity_in_Stock_lb |-> 1] >>)

\* a workbook: each sheet is a table, or None when the sheet is missing
DefaultGrocery == [Cost_List |-> CostMulti, Nutrition_List |-> NutritionA, Check_Nutrition |-> CheckA]
GroceryFiles ==
    { [Cost_List |-> CostOne, Nutrition_List |-> NutritionA, Check_Nutrition |-> CheckA],
      [Cost_List |-> CostSoda, Nutrition_List |-> NutritionA, Check_Nutrition |-> CheckA],
      [Cost_List |-> CostDup, Nutrition_List |-> NutritionA, Check_Nutrition |-> CheckB],
      [Cost_List |-> CostMulti, Nutrition_List |-> NutritionA, Check_Nutrition |-> None],
      [Cost_List |-> CostOne, Nutrition_List |-> None, Check_Nutrition |-> None] }
DefaultStock == StockZero
StockFiles == {StockSome, StockFull}

(***************************************************************************)
(* Session state and the parts of a script run that write it.  A session   *)
(* is the record s of the roster and the four tables; every interaction    *)
(* runs the script from the top: the default load, the sidebar, the tabs.  *)
(***************************************************************************)
\* load_default_grocery_data / the upload: three sheets read in order; the
\* first read that raises leaves the later tables as they were
LoadGrocery(file, cur) ==
    IF file.Cost_List.isNone THEN cur
    ELSE IF file.Nutrition_List.isNone
         THEN [cur EXCEPT !.cost = file.Cost_List]
    ELSE IF file.Check_Nutrition.isNone
         THEN [cur EXCEPT !.cost = file.Cost_List, !.nutrition = file.Nutrition_List]
    ELSE [cur EXCEPT !.cost = file.Cost_List, !.nutrition = file.Nutrition_List,
                     !.check = file.Check_Nutrition]

\* Data/Grocery.xlsx is read, or the read raises (file absent)
MissingFile == [Cost_List |-> None, Nutrition_List |-> None, Check_Nutrition |-> None]
DefaultGroceryReads == {DefaultGrocery, MissingFile}
DefaultStockReads == {DefaultStock, None}

\* the file an upload widget holds: none, or the workbook picked
NoUpload == [isNone |-> TRUE, file |-> MissingFile]
Uploaded(file) == [isNone |-> FALSE, file |-> file]

\* the session as first created
NewSession ==
    [members |-> <<>>, cost |-> None, nutrition |-> None, check |-> None, stock |-> None]

\* the reads of the default files a run starting in s makes at the top
GroceryReadsFor(s) == IF s.cost.isNone THEN DefaultGroceryReads ELSE {MissingFile}
StockReadsFor(s) == IF s.stock.isNone THEN DefaultStockReads ELSE {None}

\* top of the script, every run: the defaults are loaded while cost_df / stock_df is None
LoadDefaults(s, f, k) ==
    LET g == IF s.cost.isNone THEN LoadGrocery(f, s) ELSE s
    IN IF g.stock.isNone THEN [g EXCEPT !.stock = k] ELSE g

\* sidebar, every run: a file held by the grocery uploader is read into the session
ReadGroceryUpload(s, gu) == IF gu.isNone THEN s ELSE LoadGrocery(gu.file, s)

\* sidebar, every run: a file held by the stock uploader is read into the session
ReadStockUpload(s, su) == IF su.isNone THEN s ELSE [s EXCEPT !.stock = su]

\* a run in which no sidebar button is pressed, up to the tabs
TopOfRun(s, gu, su, f, k) ==
    ReadStockUpload(ReadGroceryUpload(LoadDefaults(s, f, k), gu), su)

\* nothing of a request is on the page
NoTotals == [shown |-> FALSE, total_cost |-> 0, total_items |-> 0, total_weight |-> 0]
FreshRequired == [Min_Calorie |-> 0, Min_Protein |-> 0, Min_Carbohydrate |-> 0, Min_Fat |-> 0]

\* multiset of (package description, quantity) of a results list
PurchaseBag(res) ==
    LET lines == {<<res[i].Package_Description, res[i].Qty_to_Buy>> : i \in 1..Len(res)}
    IN [l \in lines |->
           Cardinality({i \in 1..Len(res) :
                          <<res[i].Package_Description, res[i].Qty_to_Buy>> = l})]

NoFirstRun ==
    [taken |-> FALSE, catalog_changed |-> FALSE,
     members |-> <<>>, cost |-> None, nutrition |-> None, check |-> None, stock |-> None,
     required_nutrients |-> FreshRequired, data |-> None,
     status |-> "none", outcome |-> "idle", buy_val |-> <<>>, total_cost |-> 0,
     purchases |-> PurchaseBag(<<>>)]

(***************************************************************************)
(* Tab 3, Generate: requirement aggregation.                               *)
(***************************************************************************)
\* check_df[(Age_Sex_Group.str.lower() == gender) & (Min_Age <= age) & (Max_Age >= age)]
RowMatches(r, member) ==
    /\ Lower(r.Age_Sex_Group) = member.gender
    /\ r.Min_Age <= member.age
    /\ r.Max_Age >= member.age

MatchingRows(check, member) ==
    SelectSeq(check.rows, LAMBDA r : RowMatches(r, member))

\* mutation: .values[-1] for .values[0]
AddMemberRowLast(req, row) ==
    IF row = <<>> THEN req
    ELSE [Min_Calorie |-> req.Min_Calorie + row[Len(row)].Min_Calorie,
          Min_Protein |-> req.Min_Protein + row[Len(row)].min_Protein,
          Min_Carbohydrate |-> req.Min_Carbohydrate + row[Len(row)].min_Carbohydrate,
          Min_Fat |-> req.Min_Fat + row[Len(row)].min_Fat]

\* if not row.empty: required_nutrients[...] += row[...].values[0]
AddMemberRow(req, row) ==
    IF row = <<>> THEN req
    ELSE [Min_Calorie |-> req.Min_Calorie + row[1].Min_Calorie,
          Min_Protein |-> req.Min_Protein + row[1].min_Protein,
          Min_Carbohydrate |-> req.Min_Carbohydrate + row[1].min_Carbohydrate,
          Min_Fat |-> req.Min_Fat + row[1].min_Fat]

\* for member in st.session_state.household_members: ...
RECURSIVE AggregateLoop(_, _, _)
AggregateLoop(members, check, req) ==
    IF members = <<>> THEN req
    ELSE AggregateLoop(Tail(members), check,
                       AddMemberRow(req, MatchingRows(check, Head(members))))

\* mutation: the dict of the previous request is kept instead of a fresh one
RequiredNutrientsKept(members, check) == AggregateLoop(members, check, required_nutrients)

\* required_nutrients = {... 0 ...} followed by the loop
RequiredNutrients(members, check) == AggregateLoop(members, check, FreshRequired)

(***************************************************************************)
(* Catalog join.                                                           *)
(***************************************************************************)
JoinNutrition(c, n) ==
    [Food |-> c.Food, Package_Description |-> c.Package_Description, Store |-> c.Store,
     price |-> c.price, lb |-> c.lb,
     kcal |-> n.kcal, Protein_g |-> n.Protein_g, Carbs_g |-> n.Carbs_g, Fat_g |-> n.Fat_g,
     Food_Basket |-> n.Food_Basket, Max_quantity |-> n.Max_quantity]

\* pd.merge(cost_df, nutrition_df, on="Food"): inner join, left row order kept
RECURSIVE MergeOnFood(_, _)
MergeOnFood(cost_rows, nut_rows) ==
    IF cost_rows = <<>> THEN <<>>
    ELSE LET c == Head(cost_rows)
             m == SelectSeq(nut_rows, LAMBDA n : n.Food = c.Food)
         IN [i \in 1..Len(m) |-> JoinNutrition(c, m[i])]
            \o MergeOnFood(Tail(cost_rows), nut_rows)

WithStock(d, qty) ==
    [Food |-> d.Food, Package_Description |-> d.Package_Description, Store |-> d.Store,
     price |-> d.price, lb |-> d.lb,
     kcal |-> d.kcal, Protein_g |-> d.Protein_g, Carbs_g |-> d.Carbs_g, Fat_g |-> d.Fat_g,
     Food_Basket |-> d.Food_Basket, Max_quantity |-> d.Max_quantity,
     Quantity_in_Stock_lb |-> qty]

\* pd.merge(data, stock_df, on="Package Description", how="left").fillna(0)
RECURSIVE MergeStock(_, _)
MergeStock(rows, stock_rows) ==
    IF rows = <<>> THEN <<>>
    ELSE LET d == Head(rows)
             m == SelectSeq(stock_rows,
                            LAMBDA k : k.Package_Description = d.Package_Description)
         IN (IF m = <<>> THEN << WithStock(d, 0) >>
             ELSE [i \in 1..Len(m) |-> WithStock(d, m[i].Quantity_in_Stock_lb)])
            \o MergeStock(Tail(rows), stock_rows)

MergeData(cost, nutrition, stock) ==
    MergeStock(MergeOnFood(cost.rows, nutrition.rows), stock.rows)

(***************************************************************************)
(* Model construction.  A purchase assignment q maps each key of buy_qty   *)
(* to a whole number of packages; h maps each basket category to has_cat.  *)
(***************************************************************************)
RECURSIVE Sum(_)
Sum(s) == IF s = <<>> THEN 0 ELSE Head(s) + Sum(Tail(s))

\* keys of the buy_qty dict, in insertion order (a repeated key keeps its first place)
RECURSIVE DictKeys(_, _)
DictKeys(rows, seen) ==
    IF rows = <<>> THEN <<>>
    ELSE LET k == Head(rows).Package_Description
         IN IF k \in seen THEN DictKeys(Tail(rows), seen)
            ELSE <<k>> \o DictKeys(Tail(rows), seen \cup {k})

BuyKeys(d) == DictKeys(d, {})

\* upBound of the LpVariable the dict holds for key k: a later row replaces an earlier one
UpBound(d, k) ==
    LET m == SelectSeq(d, LAMBDA r : r.Package_Description = k)
    IN m[Len(m)].Max_quantity

\* lowBound=0, upBound=row["Max_quantity"], cat="Integer"
RECURSIVE AssignmentsOver(_, _)
AssignmentsOver(keys, d) ==
    IF keys = <<>> THEN { [k \in {} |-> 0] }
    ELSE { (Head(keys) :> v) @@ q :
             v \in 0..UpBound(d, Head(keys)), q \in AssignmentsOver(Tail(keys), d) }

Assignments(d) == AssignmentsOver(BuyKeys(d), d)

\* lpSum(data.loc[i, "price"] * buy_qty[data.loc[i, "Package Description"]] for i ...)
Objective(d, q) ==
    Sum([i \in 1..Len(d) |-> d[i].price * q[d[i].Package_Description]])

NutrientConstraints ==
    << [nutrient |-> "Min_Protein", col |-> "Protein_g"],
       [nutrient |-> "Min_Carbohydrate", col |-> "Carbs_g"],
       [nutrient |-> "Min_Fat", col |-> "Fat_g"],
       [nutrient |-> "Min_Calorie", col |-> "kcal"] >>

\* lpSum(data.loc[i, col] * buy_qty[...] for i ...)
PurchasedNutrient(d, q, col) ==
    Sum([i \in 1..Len(d) |-> d[i][col] * q[d[i].Package_Description]])

\* sum(data.loc[i, col] * data.loc[i, "Quantity_in_Stock_lb"] for i ...)
StockedNutrient(d, col) ==
    Sum([i \in 1..Len(d) |-> d[i][col] * d[i].Quantity_in_Stock_lb])

\* mutation: the daily floor is used as the weekly floor
WeeklyFloorDaily(req, nutrient) == req[nutrient]

\* required_nutrients[nutrient] * 7
WeeklyFloor(req, nutrient) == req[nutrient] * 7

NutrientHolds(d, req, q, nc) ==
    PurchasedNutrient(d, q, nc.col) + StockedNutrient(d, nc.col)
        >= WeeklyFloor(req, nc.nutrient)

basket_categories ==
    << "Protein", "Grains & Carbohydrate Sources", "Vegetables", "Fruits",
       "Fats, Nuts & Seeds" >>

BasketSet == {basket_categories[i] : i \in 1..Len(basket_categories)}

\* data[data["Food Basket"] == cat].index.tolist()
CatItems(d, cat) == SelectSeq([i \in 1..Len(d) |-> i], LAMBDA i : d[i].Food_Basket = cat)

\* mutation: has_cat[cat] == 1 is added for each category with items
PresenceForced(d, q, h, cat) ==
    LET items == CatItems(d, cat)
    IN Len(items) > 0 =>
         /\ Sum([j \in 1..Len(items) |-> q[d[items[j]].Package_Description]])
              + Len(SelectSeq(items, LAMBDA i : d[i].Quantity_in_Stock_lb > 0))
              >= h[cat]
         /\ h[cat] = 1

\* lpSum(buy_qty[...] for i in cat_items) + lpSum(1 for i in cat_items if stock > 0)
\*   >= has_cat[cat];   has_cat[cat] <= 1
PresenceHolds(d, q, h, cat) ==
    LET items == CatItems(d, cat)
    IN Len(items) > 0 =>
         /\ Sum([j \in 1..Len(items) |-> q[d[items[j]].Package_Description]])
              + Len(SelectSeq(items, LAMBDA i : d[i].Quantity_in_Stock_lb > 0))
              >= h[cat]
         /\ h[cat] <= 1

\* every constraint added to the model holds for q and some binary has_cat
Feasible(d, req, q) ==
    /\ \A n \in 1..Len(NutrientConstraints) : NutrientHolds(d, req, q, NutrientConstraints[n])
    /\ \E h \in [BasketSet -> {0, 1}] : \A cat \in BasketSet : PresenceHolds(d, q, h, cat)

(***************************************************************************)
(* model.solve(): the external MILP solver.  The model has bounded integer *)
(* variables only, so it is Optimal when an assignment is feasible and     *)
(* Infeasible otherwise.  The code hands the model to the solver and reads *)
(* back the status and the values; which of several equal-cost optima the  *)
(* solver returns is the solver's own choice, so Solve is the set of what  *)
(* it may return.                                                          *)
(***************************************************************************)
FeasibleSet(d, req) == {q \in Assignments(d) : Feasible(d, req, q)}

\* mutation: LpMaximize for LpMinimize
MaxObjective(d, F) ==
    LET costs == {Objective(d, q) : q \in F}
    IN CHOOSE c \in costs : \A c2 \in costs : c >= c2

\* the least objective value over a non-empty set of assignments
MinObjective(d, F) ==
    LET costs == {Objective(d, q) : q \in F}
    IN CHOOSE c \in costs : \A c2 \in costs : c <= c2

Optima(d, F) ==
    LET least == MinObjective(d, F)
    IN {q \in F : Objective(d, q) = least}

\* status = model.solve(); LpStatus[status]; the variable values when Optimal
Solve(d, req) ==
    LET F == FeasibleSet(d, req)
        keys == BuyKeys(d)
    IN IF F = {} THEN {[status |-> "Infeasible",
                        q |-> [k \in {keys[i] : i \in 1..Len(keys)} |-> 0]]}  \* never read
       ELSE {[status |-> "Optimal", q |-> q] : q \in Optima(d, F)}

\* buy_qty[food].value() for each key, in dict order (a float: thousandths here)
VarValues(d, q) ==
    LET keys == BuyKeys(d)
    IN [i \in 1..Len(keys) |-> [food |-> keys[i], value |-> q[keys[i]] * 1000]]

(***************************************************************************)
(* Result extraction.                                                      *)
(***************************************************************************)
\* int(round(qty)) of a value in thousandths (round-half-even at a tie)
IntRound(v) ==
    LET lo == v \div 1000
        r == v % 1000
    IN IF r > 500 \/ (r = 500 /\ lo % 2 = 1) THEN lo + 1 ELSE lo

\* if qty and qty > 0
Included(v) == v # 0 /\ v > 0

\* data.loc[data["Package Description"] == food].iloc[0]
RowData(d, food) == SelectSeq(d, LAMBDA r : r.Package_Description = food)[1]

ResultLine(d, entry) ==
    LET qty == IntRound(entry.value)
        row_data == RowData(d, entry.food)
    IN [Store |-> row_data.Store, Food |-> row_data.Food,
        Package_Description |-> entry.food,
        lb_per_package |-> row_data.lb, price_per_package |-> row_data.price,
        Qty_to_Buy |-> qty,
        Total_Weight_lb |-> row_data.lb * qty,
        Weekly_Cost |-> row_data.price * qty]

\* for food in buy_qty: ... results.append({...})
RECURSIVE CollectResults(_, _)
CollectResults(d, values) ==
    IF values = <<>> THEN <<>>
    ELSE (IF Included(Head(values).value) THEN << ResultLine(d, Head(values)) >> ELSE <<>>)
         \o CollectResults(d, Tail(values))

\* results_df[...].sum() of the three columns
PlanTotals(res) ==
    [shown |-> TRUE,
     total_cost |-> Sum([i \in 1..Len(res) |-> res[i].Weekly_Cost]),
     total_items |-> Sum([i \in 1..Len(res) |-> res[i].Qty_to_Buy]),
     total_weight |-> Sum([i \in 1..Len(res) |-> res[i].Total_Weight_lb])]

\* mutation: the store filter is lost
StoreItemsAll(res, store) == res

\* results_df[results_df["Store"] == store]
StoreItems(res, store) == SelectSeq(res, LAMBDA r : r.Store = store)

StoreGroup(res, store) ==
    LET store_items == StoreItems(res, store)
    IN [store |-> store,
        store_cost |-> Sum([i \in 1..Len(store_items) |-> store_items[i].Weekly_Cost]),
        store_packages |-> Sum([i \in 1..Len(store_items) |-> store_items[i].Qty_to_Buy]),
        items |-> store_items]

\* for store in sorted(results_df["Store"].unique()): ...
GroupByStore(res) ==
    LET stores == Sorted({res[i].Store : i \in 1..Len(res)})
    IN [j \in 1..Len(stores) |-> StoreGroup(res, stores[j])]

(***************************************************************************)
(* Tab 3.                                                                  *)
(***************************************************************************)
\* mutation: the roster guard is dropped
RosterNeverEmpty(members) == FALSE

\* not st.session_state.household_members
RosterEmpty(members) == members = <<>>

\* mutation: the status test lets every solved model through
IsOptimalOrSolved(st) == st \in {"Optimal", "Infeasible"}

\* if LpStatus[status] == "Optimal"
IsOptimal(st) == st = "Optimal"

\* the body of the try block, up to the branch that ends the request
Aborted(req) ==
    [outcome |-> "error", built |-> FALSE, solved |-> FALSE, required_nutrients |-> req,
     data |-> None, status |-> "none", buy_val |-> <<>>, results |-> <<>>,
     totals |-> NoTotals, by_store |-> <<>>]

\* the request with the solver returning sol
RequestWith(d, req, sol) ==
    LET st == sol.status
        solvedModel == [outcome |-> "failed", built |-> TRUE, solved |-> TRUE,
                        required_nutrients |-> req, data |-> DataFrame(d), status |-> st,
                        buy_val |-> <<>>, results |-> <<>>, totals |-> NoTotals,
                        by_store |-> <<>>]
    IN IF ~IsOptimal(st) THEN solvedModel
    ELSE
    LET values == VarValues(d, sol.q)
        res == CollectResults(d, values)
    IN IF res = <<>>
       THEN \* results_df has no columns: results_df["Weekly_Cost"] raises KeyError
            [solvedModel EXCEPT !.outcome = "error", !.buy_val = values]
       ELSE [solvedModel EXCEPT !.outcome = "plan", !.buy_val = values, !.results = res,
                                !.totals = PlanTotals(res), !.by_store = GroupByStore(res)]

\* the ways the request can end: one for each result the solver may return
RunRequest(members, cost, nutrition, check, stock) ==
    IF check.isNone THEN {Aborted(FreshRequired)}          \* None[...] raises
    ELSE
    LET req == RequiredNutrients(members, check)
    IN IF nutrition.isNone \/ stock.isNone THEN {Aborted(req)}   \* pd.merge raises
    ELSE
    LET d == MergeData(cost, nutrition, stock)
    IN {RequestWith(d, req, sol) : sol \in Solve(d, req)}

\* what tab 3 shows without a request: nothing is built, solved or listed
NoRequest(shown) ==
    [outcome |-> shown, built |-> FALSE, solved |-> FALSE,
     required_nutrients |-> FreshRequired, data |-> None, status |-> "none",
     buy_val |-> <<>>, results |-> <<>>, totals |-> NoTotals, by_store |-> <<>>]

\* the button is shown and not pressed
RequestIdle == NoRequest("idle")

\* tab 3 with an empty roster: the warning, no button
Tab3NoMembers == NoRequest("warn_members")

\* tab 3 with members but no cost table: the warning, no button
Tab3NoCost == NoRequest("warn_cost")

\* a run that halted in st.rerun() before tab 3: nothing of tab 3 is rendered
Tab3NotReached == NoRequest("rerun")

\* tab 3 of a run that ends with session s; pressed: the button was clicked.
\* The set of what the page may show (more than one only through the solver).
Tab3(s, pressed) ==
    IF RosterEmpty(s.members) THEN {Tab3NoMembers}
    ELSE IF s.cost.isNone THEN {Tab3NoCost}
    ELSE IF pressed
         THEN RunRequest(s.members, s.cost, s.nutrition, s.check, s.stock)
    ELSE {RequestIdle}

(***************************************************************************)
(* Script runs.  Each action is one script run, from the default load to    *)
(* tab 3 or to the st.rerun() that halts it.  A halted run queues a rerun; *)
(* the next run is that rerun, alone (Rerun) or together with the widget   *)
(* event that arrived before it started (any other action).                *)
(***************************************************************************)
Current ==
    [members |-> household_members, cost |-> cost_df, nutrition |-> nutrition_df,
     check |-> check_df, stock |-> stock_df]

\* tab 3 showing r has the Generate button: the run reached line 264
ButtonDrawn(r) == r.outcome \notin {"warn_members", "warn_cost", "rerun"}

\* the run ends with session s and tab 3 showing r
EndRun(s, r) ==
    /\ household_members' = s.members
    /\ cost_df' = s.cost
    /\ nutrition_df' = s.nutrition
    /\ check_df' = s.check
    /\ stock_df' = s.stock
    /\ outcome' = r.outcome
    /\ built' = r.built
    /\ solved' = r.solved
    /\ required_nutrients' = r.required_nutrients
    /\ data' = r.data
    /\ status' = r.status
    /\ buy_val' = r.buy_val
    /\ results' = r.results
    /\ totals' = r.totals
    /\ by_store' = r.by_store
    /\ rerun_queued' = FALSE
    /\ generate_drawn' = ButtonDrawn(r)

\* the run halts in st.rerun() with session s: tab 3 is not reached, a rerun is queued
HaltRun(s) ==
    /\ household_members' = s.members
    /\ cost_df' = s.cost
    /\ nutrition_df' = s.nutrition
    /\ check_df' = s.check
    /\ stock_df' = s.stock
    /\ outcome' = Tab3NotReached.outcome
    /\ built' = Tab3NotReached.built
    /\ solved' = Tab3NotReached.solved
    /\ required_nutrients' = Tab3NotReached.required_nutrients
    /\ data' = Tab3NotReached.data
    /\ status' = Tab3NotReached.status
    /\ buy_val' = Tab3NotReached.buy_val
    /\ results' = Tab3NotReached.results
    /\ totals' = Tab3NotReached.totals
    /\ by_store' = Tab3NotReached.by_store
    /\ rerun_queued' = TRUE
    /\ UNCHANGED generate_drawn   \* the page keeps tab 3 of the run before

\* the first run of a session: the state is created, the defaults are read, tab 3 is shown
Init ==
    /\ grocery_uploader = NoUpload
    /\ stock_uploader = None
    /\ rerun_queued = FALSE
    /\ first_run = NoFirstRun
    /\ \E f \in DefaultGroceryReads, k \in DefaultStockReads :
         LET s == LoadDefaults(NewSession, f, k)
         IN \E r \in Tab3(s, FALSE) :
            /\ household_members = s.members
            /\ cost_df = s.cost
            /\ nutrition_df = s.nutrition
            /\ check_df = s.check
            /\ stock_df = s.stock
            /\ outcome = r.outcome
            /\ built = r.built
            /\ solved = r.solved
            /\ required_nutrients = r.required_nutrients
            /\ data = r.data
            /\ status = r.status
            /\ buy_val = r.buy_val
            /\ results = r.results
            /\ totals = r.totals
            /\ by_store = r.by_store
            /\ generate_drawn = ButtonDrawn(r)

\* a run without a click on a button (a widget value changed, the page reloaded)
ScriptRun ==
    /\ ~rerun_queued
    /\ \E f \in GroceryReadsFor(Current), k \in StockReadsFor(Current) :
         LET s == TopOfRun(Current, grocery_uploader, stock_uploader, f, k)
         IN \E r \in Tab3(s, FALSE) : EndRun(s, r)
    /\ UNCHANGED <<grocery_uploader, stock_uploader>>

\* the rerun queued by st.rerun(), with no widget event before it starts
Rerun ==
    /\ rerun_queued
    /\ \E f \in GroceryReadsFor(Current), k \in StockReadsFor(Current) :
         LET s == TopOfRun(Current, grocery_uploader, stock_uploader, f, k)
         IN \E r \in Tab3(s, FALSE) : EndRun(s, r)
    /\ UNCHANGED <<grocery_uploader, stock_uploader>>

\* sidebar: a workbook is put in the grocery uploader
UploadGrocery ==
    /\ \E file \in GroceryFiles :
         /\ grocery_uploader' = Uploaded(file)
         /\ \E f \in GroceryReadsFor(Current), k \in StockReadsFor(Current) :
              LET s == TopOfRun(Current, Uploaded(file), stock_uploader, f, k)
              IN \E r \in Tab3(s, FALSE) : EndRun(s, r)
    /\ UNCHANGED stock_uploader

\* sidebar: the workbook is taken out of the grocery uploader
RemoveGroceryUpload ==
    /\ ~grocery_uploader.isNone
    /\ grocery_uploader' = NoUpload
    /\ \E f \in GroceryReadsFor(Current), k \in StockReadsFor(Current) :
         LET s == TopOfRun(Current, NoUpload, stock_uploader, f, k)
         IN \E r \in Tab3(s, FALSE) : EndRun(s, r)
    /\ UNCHANGED stock_uploader

\* sidebar: "Reset to Default Grocery Data": load_default_grocery_data(); st.rerun()
\* (the run halts at line 110, before the stock uploader is read)
ResetGrocery ==
    /\ \E f1 \in GroceryReadsFor(Current), k1 \in StockReadsFor(Current),
          d \in DefaultGroceryReads :
         LET s1 == LoadGrocery(d, ReadGroceryUpload(LoadDefaults(Current, f1, k1),
                                                    grocery_uploader))
         IN HaltRun(s1)
    /\ UNCHANGED <<grocery_uploader, stock_uploader>>

\* sidebar: a workbook is put in the stock uploader
UploadStock ==
    /\ \E file \in StockFiles :
         /\ stock_uploader' = file
         /\ \E f \in GroceryReadsFor(Current), k \in StockReadsFor(Current) :
              LET s == TopOfRun(Current, grocery_uploader, file, f, k)
              IN \E r \in Tab3(s, FALSE) : EndRun(s, r)
    /\ UNCHANGED grocery_uploader

\* sidebar: the workbook is taken out of the stock uploader
RemoveStockUpload ==
    /\ ~stock_uploader.isNone
    /\ stock_uploader' = None
    /\ \E f \in GroceryReadsFor(Current), k \in StockReadsFor(Current) :
         LET s == TopOfRun(Current, grocery_uploader, None, f, k)
         IN \E r \in Tab3(s, FALSE) : EndRun(s, r)
    /\ UNCHANGED grocery_uploader

\* sidebar: "Reset to Default Stock": load_default_stock_data(); st.rerun()
ResetStock ==
    /\ \E f1 \in GroceryReadsFor(Current), k1 \in StockReadsFor(Current),
          d \in DefaultStockReads :
         LET t == TopOfRun(Current, grocery_uploader, stock_uploader, f1, k1)
             s1 == IF d.isNone THEN t ELSE [t EXCEPT !.stock = d]
         IN HaltRun(s1)
    /\ UNCHANGED <<grocery_uploader, stock_uploader>>

\* tab 1: "Add Member"
AddMember ==
    /\ Len(household_members) < MaxMembers
    /\ \E a \in Ages, g \in Genders :
         \E f \in GroceryReadsFor(Current), k \in StockReadsFor(Current) :
           LET t == TopOfRun(Current, grocery_uploader, stock_uploader, f, k)
               s == [t EXCEPT !.members = Append(t.members, [age |-> a, gender |-> g])]
           IN \E r \in Tab3(s, FALSE) : EndRun(s, r)
    /\ UNCHANGED <<grocery_uploader, stock_uploader>>

\* tab 1: "Clear All Members" (shown while the roster is non-empty); st.rerun()
ClearAllMembers ==
    /\ household_members # <<>>
    /\ \E f1 \in GroceryReadsFor(Current), k1 \in StockReadsFor(Current) :
         LET t == TopOfRun(Current, grocery_uploader, stock_uploader, f1, k1)
             s1 == [t EXCEPT !.members = <<>>]
         IN HaltRun(s1)
    /\ UNCHANGED <<grocery_uploader, stock_uploader>>

\* mutation: the aggregation loop pops the members off the session's roster
GenerateDrainsRoster ==
    /\ generate_drawn
    /\ ~RosterEmpty(household_members)
    /\ ~cost_df.isNone
    /\ \E f \in GroceryReadsFor(Current), k \in StockReadsFor(Current) :
         LET s == TopOfRun(Current, grocery_uploader, stock_uploader, f, k)
         IN \E r \in Tab3(s, TRUE) : EndRun([s EXCEPT !.members = <<>>], r)
    /\ UNCHANGED <<grocery_uploader, stock_uploader>>

\* tab 3: "Generate Shopping List" is pressed: the button is on the page, drawn by the
\* last run that reached tab 3 (a run halted by st.rerun() since then has not redrawn it)
Generate ==
    /\ generate_drawn
    /\ ~RosterEmpty(household_members)
    /\ ~cost_df.isNone
    /\ \E f \in GroceryReadsFor(Current), k \in StockReadsFor(Current) :
         LET s == TopOfRun(Current, grocery_uploader, stock_uploader, f, k)
         IN \E r \in Tab3(s, TRUE) : EndRun(s, r)
    /\ UNCHANGED <<grocery_uploader, stock_uploader>>

Next ==
    \/ ScriptRun /\ UNCHANGED first_run
    \/ Rerun /\ UNCHANGED first_run
    \/ UploadGrocery /\ UNCHANGED first_run
    \/ RemoveGroceryUpload /\ UNCHANGED first_run
    \/ ResetGrocery /\ UNCHANGED first_run
    \/ UploadStock /\ UNCHANGED first_run
    \/ RemoveStockUpload /\ UNCHANGED first_run
    \/ ResetStock /\ UNCHANGED first_run
    \/ AddMember /\ UNCHANGED first_run
    \/ ClearAllMembers /\ UNCHANGED first_run
    \/ Generate /\ UNCHANGED first_run

Spec == Init /\ [][Next]_vars

(***************************************************************************)
(* SpecRepeat: the default tables are loaded; members are added and        *)
(* cleared, a grocery workbook and a stock workbook are uploaded, taken    *)
(* out again and reset, and requests are made.  The history variable keeps *)
(* the session's first request (the session it read and what it gave) and  *)
(* whether the cost table was changed after it.                            *)
(***************************************************************************)
\* the inputs of the steps between the requests
RepeatGrocery == [Cost_List |-> CostOne, Nutrition_List |-> NutritionA, Check_Nutrition |-> CheckA]
RepeatStock == StockSome
RepeatGenders == {male}

InitRepeat ==
    /\ Init
    /\ cost_df = DefaultGrocery.Cost_List
    /\ stock_df = DefaultStock

Disturb ==
    first_run' = [first_run EXCEPT
                    !.catalog_changed = first_run.taken /\ (@ \/ cost_df' # cost_df)]

Record ==
    first_run' =
        IF first_run.taken THEN first_run
        ELSE [taken |-> TRUE, catalog_changed |-> FALSE,
              members |-> household_members', cost |-> cost_df',
              nutrition |-> nutrition_df', check |-> check_df', stock |-> stock_df',
              required_nutrients |-> required_nutrients', data |-> data',
              status |-> status', outcome |-> outcome', buy_val |-> buy_val',
              total_cost |-> totals'.total_cost, purchases |-> PurchaseBag(results')]

NextRepeat ==
    \/ Rerun /\ Disturb
    \/ UploadGrocery /\ grocery_uploader' = Uploaded(RepeatGrocery) /\ Disturb
    \/ RemoveGroceryUpload /\ Disturb
    \/ ResetGrocery /\ Disturb
    \/ UploadStock /\ stock_uploader' = RepeatStock /\ Disturb
    \/ RemoveStockUpload /\ Disturb
    \/ ResetStock /\ Disturb
    \/ /\ AddMember
       /\ Len(household_members) < MaxRepeatMembers
       /\ household_members'[Len(household_members')].gender \in RepeatGenders
       /\ Disturb
    \/ ClearAllMembers /\ Disturb
    \/ Generate /\ Record

SpecRepeat == InitRepeat /\ [][NextRepeat]_vars

(***************************************************************************)
(* Vocabulary of the properties.                                           *)
(***************************************************************************)
\* the request of the last script run got past the tab 3 guard
RequestRan == outcome \in {"plan", "failed", "error"}

\* the four nutrients: key of required_nutrients, catalog column, requirement column
Nutrients ==
    { [nutrient |-> "Min_Calorie", col |-> "kcal", daily |-> "Min_Calorie"],
      [nutrient |-> "Min_Protein", col |-> "Protein_g", daily |-> "min_Protein"],
      [nutrient |-> "Min_Carbohydrate", col |-> "Carbs_g", daily |-> "min_Carbohydrate"],
      [nutrient |-> "Min_Fat", col |-> "Fat_g", daily |-> "min_Fat"] }

\* indices of the requirement rows whose group is the member's gender, case-insensitively,
\* and whose inclusive age range holds the member's age
MatchIndices(member) ==
    {j \in 1..Len(check_df.rows) :
        /\ Lower(check_df.rows[j].Age_Sex_Group) = Lower(member.gender)
        /\ member.age \in check_df.rows[j].Min_Age .. check_df.rows[j].Max_Age}

\* the daily minimum the member brings: that of the first matching row, or zero
MemberDaily(member, n) ==
    LET idx == MatchIndices(member)
    IN IF idx = {} THEN 0
       ELSE check_df.rows[CHOOSE j \in idx : \A k \in idx : j <= k][n.daily]

HouseholdDaily(n) ==
    Sum([i \in 1..Len(household_members) |-> MemberDaily(household_members[i], n)])

\* packages of the plan for a package description (0 when it has no line)
PlanQuantity(food) ==
    LET l == SelectSeq(results, LAMBDA r : r.Package_Description = food)
    IN IF l = <<>> THEN 0 ELSE l[1].Qty_to_Buy

\* nutrient content bought by the plan, and held in stock, over the joined catalog
PlanNutrient(n) ==
    Sum([i \in 1..Len(data.rows) |->
            data.rows[i][n.col] * PlanQuantity(data.rows[i].Package_Description)])

StockNutrient(n) ==
    Sum([i \in 1..Len(data.rows) |->
            data.rows[i][n.col] * data.rows[i].Quantity_in_Stock_lb])

(***************************************************************************)
(* C1.  A model is built or solved only for a non-empty roster: whenever   *)
(* the last script run constructed the MILP or called the solver, the      *)
(* household roster is non-empty; with zero members tab 3 renders only the *)
(* warning.                                                                *)
(***************************************************************************)
C1_NoModelForEmptyRoster ==
    /\ (built \/ solved) => Len(household_members) > 0
    /\ Len(household_members) = 0 => ~RequestRan

\* tab 3 was rendered for an empty roster after both workbooks were uploaded
C1_Witness ==
    /\ outcome = "warn_members"
    /\ household_members = <<>>
    /\ ~grocery_uploader.isNone /\ ~stock_uploader.isNone
    /\ ~cost_df.isNone /\ ~nutrition_df.isNone /\ ~check_df.isNone /\ ~stock_df.isNone
    /\ ~built /\ ~solved

(***************************************************************************)
(* C2.  Every request whose solver status is Optimal meets every weekly    *)
(* floor: for each nutrient, the content of the plan's quantities plus the *)
(* content of the stock, summed over the joined catalog, is at least       *)
(* 7 times the household's matched daily minimum.                          *)
(***************************************************************************)
C2_FloorsMet ==
    status = "Optimal" =>
        \A n \in Nutrients : PlanNutrient(n) + StockNutrient(n) >= 7 * HouseholdDaily(n)

\* a plan whose purchases alone miss a floor that the stock makes up
C2_Witness ==
    /\ outcome = "plan"
    /\ \E n \in Nutrients :
         /\ PlanNutrient(n) < 7 * HouseholdDaily(n)
         /\ PlanNutrient(n) + StockNutrient(n) >= 7 * HouseholdDaily(n)
    /\ \E n \in Nutrients : PlanNutrient(n) + StockNutrient(n) = 7 * HouseholdDaily(n)

(***************************************************************************)
(* C3.  Every line of an Optimal plan has a whole quantity q >= 1 that     *)
(* does not exceed the Max_quantity of the package the line reports (the   *)
(* joined record with the line's Food and Package Description), also when  *)
(* several catalog rows share a package description.                       *)
(***************************************************************************)
C3_PlanWithinMaximum ==
    outcome = "plan" =>
        \A i \in 1..Len(results) :
            /\ results[i].Qty_to_Buy >= 1
            /\ \A j \in 1..Len(data.rows) :
                 (/\ data.rows[j].Package_Description = results[i].Package_Description
                  /\ data.rows[j].Food = results[i].Food)
                 => results[i].Qty_to_Buy <= data.rows[j].Max_quantity

(***************************************************************************)
(* C4.  The plan of an Optimal request is cost-minimal and the total cost  *)
(* it reports is that minimum: no whole-number assignment within the       *)
(* declared bounds that meets the four weekly floors (purchases plus       *)
(* stock) costs less than the plan, and total_cost equals the least cost.  *)
(***************************************************************************)
\* an assignment meets the four weekly floors
MeetsFloors(q) ==
    \A n \in Nutrients :
        Sum([i \in 1..Len(data.rows) |->
                data.rows[i][n.col] * q[data.rows[i].Package_Description]])
          + StockNutrient(n) >= 7 * HouseholdDaily(n)

\* sum_p price(p) * q(p) over the joined catalog
CostOf(q) ==
    Sum([i \in 1..Len(data.rows) |-> data.rows[i].price * q[data.rows[i].Package_Description]])

PlanAssignment == [k \in {data.rows[i].Package_Description : i \in 1..Len(data.rows)}
                     |-> PlanQuantity(k)]

C4_CostMinimalReported ==
    outcome = "plan" =>
        /\ MeetsFloors(PlanAssignment)
        /\ \A q \in Assignments(data.rows) : MeetsFloors(q) => CostOf(PlanAssignment) <= CostOf(q)
        /\ totals.total_cost = CostOf(PlanAssignment)

(***************************************************************************)
(* C5.  Scenario: a catalog of exactly one package priced 5 per unit, zero *)
(* stock, one member whose matched daily floor for each nutrient is 1/7th  *)
(* of the package's per-unit content.  As stated: the request ends Optimal *)
(* and the plan buys exactly 7 units at total cost 35.  As amended: the    *)
(* weekly floor equals one unit's content, so the plan buys exactly 1 unit *)
(* at total cost 5.                                                        *)
(***************************************************************************)
C5_Scenario ==
    /\ RequestRan /\ built
    /\ Len(household_members) = 1
    /\ Len(cost_df.rows) = 1
    /\ Len(data.rows) = 1
    /\ data.rows[1].price = 500
    /\ data.rows[1].Quantity_in_Stock_lb = 0
    /\ data.rows[1].Max_quantity >= 1
    /\ \A n \in Nutrients : 7 * HouseholdDaily(n) = data.rows[1][n.col]
    /\ \E n \in Nutrients : data.rows[1][n.col] > 0

C5_SevenUnits ==
    C5_Scenario =>
        /\ status = "Optimal" /\ outcome = "plan"
        /\ Len(results) = 1
        /\ results[1].Qty_to_Buy = 7
        /\ totals.total_cost = 3500

C5_OneUnit ==
    C5_Scenario =>
        /\ status = "Optimal" /\ outcome = "plan"
        /\ Len(results) = 1
        /\ results[1].Qty_to_Buy = 1
        /\ totals.total_cost = 500
        /\ totals.total_items = 1

\* the scenario was run, with a package that could have been bought 7 times
C5_Witness ==
    /\ C5_Scenario
    /\ data.rows[1].Max_quantity >= 7
    /\ outcome = "plan"

(***************************************************************************)
(* C6.  Whenever some nutrient's weekly floor is unreachable (its content  *)
(* summed over the joined catalog at each package's Max_quantity, plus the *)
(* stock, is below 7 times the daily floor), the request reports           *)
(* Infeasible and produces no purchase plan.                               *)
(***************************************************************************)
ReachableNutrient(n) ==
    Sum([i \in 1..Len(data.rows) |-> data.rows[i][n.col] * data.rows[i].Max_quantity])
      + StockNutrient(n)

FloorUnreachable == \E n \in Nutrients : ReachableNutrient(n) < 7 * HouseholdDaily(n)

C6_UnreachableIsInfeasible ==
    (RequestRan /\ built /\ FloorUnreachable) =>
        /\ status = "Infeasible"
        /\ outcome = "failed"
        /\ results = <<>> /\ by_store = <<>> /\ ~totals.shown

(***************************************************************************)
(* C7.  When the stock on hand alone meets all four weekly floors and the  *)
(* prices are positive, the request completes with an Optimal result that  *)
(* buys nothing (no line items, total cost 0, total packages 0) and does   *)
(* not end in an error.                                                    *)
(***************************************************************************)
StockCoversFloors == \A n \in Nutrients : StockNutrient(n) >= 7 * HouseholdDaily(n)

C7_StockCoveredPlanIsEmpty ==
    (/\ RequestRan /\ built /\ StockCoversFloors
     /\ \A i \in 1..Len(data.rows) : data.rows[i].price > 0)
    => /\ status = "Optimal"
       /\ outcome = "plan"
       /\ results = <<>>
       /\ totals.shown /\ totals.total_cost = 0 /\ totals.total_items = 0

(***************************************************************************)
(* C8.  In every Optimal plan the per-store groups partition the line      *)
(* items: the store cost subtotals sum to the total cost, the store        *)
(* package subtotals sum to the total quantity, the stores come in         *)
(* ascending lexicographic order, and each store with a line item appears  *)
(* exactly once.                                                           *)
(***************************************************************************)
C8_StoreGroupsPartition ==
    outcome = "plan" =>
        /\ Sum([j \in 1..Len(by_store) |-> by_store[j].store_cost]) = totals.total_cost
        /\ Sum([j \in 1..Len(by_store) |-> by_store[j].store_packages]) = totals.total_items
        /\ Sum([j \in 1..Len(by_store) |-> Len(by_store[j].items)]) = Len(results)
        /\ \A j \in 1..(Len(by_store) - 1) : StrLess(by_store[j].store, by_store[j + 1].store)
        /\ {by_store[j].store : j \in 1..Len(by_store)}
             = {results[i].Store : i \in 1..Len(results)}
        /\ \A j \in 1..Len(by_store) :
             \A i \in 1..Len(by_store[j].items) : by_store[j].items[i].Store = by_store[j].store

\* a plan over three stores, one of them in lower case, one with several packages
C8_Witness ==
    /\ outcome = "plan"
    /\ Len(by_store) >= 3
    /\ \E j \in 1..Len(by_store) : by_store[j].store_packages >= 2
    /\ \E j \in 1..Len(by_store) : by_store[j].store[1] >= 97

(***************************************************************************)
(* C9.  A request run on the same roster and the same cost, nutrition,     *)
(* requirement and stock tables as the session's first request yields the  *)
(* same status, the same objective value (total cost) and the same         *)
(* multiset of (package description, quantity), whatever requests, roster  *)
(* actions and table actions ran in between.  As amended: it yields the    *)
(* same status and the same objective value (total cost), from the same    *)
(* floors and the same joined catalog; it yields the same multiset when    *)
(* the model has a single least-cost assignment.  When several assignments *)
(* share the least cost, the code leaves the choice to the solver.         *)
(***************************************************************************)
SameInputsAsFirstRun ==
    /\ first_run.taken
    /\ RequestRan
    /\ household_members = first_run.members
    /\ cost_df = first_run.cost
    /\ nutrition_df = first_run.nutrition
    /\ check_df = first_run.check
    /\ stock_df = first_run.stock

\* the objective sum_rows price * buy_qty[description], at the values the solver returned
ObjectiveValue(d, values) ==
    LET val(desc) == LET e == SelectSeq(values, LAMBDA v : v.food = desc)
                     IN IF e = <<>> THEN 0 ELSE e[1].value
    IN Sum([i \in 1..Len(d.rows) |-> d.rows[i].price * val(d.rows[i].Package_Description)])

\* the model of the last request has more than one least-cost assignment
SeveralOptima ==
    /\ status = "Optimal"
    /\ Cardinality(Optima(data.rows, FeasibleSet(data.rows, required_nutrients))) > 1

C10_FloorFromRoster ==
    /\ built =>
         \A n \in Nutrients :
             WeeklyFloor(required_nutrients, n.nutrient) = 7 * HouseholdDaily(n)
    /\ (RequestRan /\ ~check_df.isNone /\ ~nutrition_df.isNone /\ ~stock_df.isNone)
         => built /\ solved

\* a roster with a member in two overlapping rows and a member in none
C10_Witness ==
    /\ built
    /\ \E i \in 1..Len(household_members) :
         Cardinality(MatchIndices(household_members[i])) >= 2
    /\ \E i \in 1..Len(household_members) : MatchIndices(household_members[i]) = {}
    /\ \E i \in 1..Len(household_members) :
         \E j \in MatchIndices(household_members[i]) :
             check_df.rows[j].Age_Sex_Group # household_members[i].gender

(***************************************************************************)
(* C11.  A request made while two rows of the cost table share a package   *)
(* description fails fast: it aborts before a model is built or solved and *)
(* produces no purchase plan.                                              *)
(***************************************************************************)
DuplicateDescription(cost) ==
    \E i \in 1..Len(cost.rows) : \E j \in 1..Len(cost.rows) :
        i # j /\ cost.rows[i].Package_Description = cost.rows[j].Package_Description

C11_DuplicateFailsFast ==
    (RequestRan /\ DuplicateDescription(cost_df)) =>
        /\ outcome = "error"
        /\ ~built /\ ~solved
        /\ results = <<>> /\ by_store = <<>> /\ ~totals.shown

(***************************************************************************)
(* C12.  Line items, totals and store groups are on the page only after a  *)
(* request that ran to completion with status Optimal.  A solved request   *)
(* whose status is not Optimal shows no line item and reports the status   *)
(* the one solve returned; a request made while the nutrition, requirement *)
(* or stock table is missing aborts with an error and shows no plan.       *)
(***************************************************************************)
NoPlanShown == results = <<>> /\ by_store = <<>> /\ ~totals.shown

MissingTable == nutrition_df.isNone \/ check_df.isNone \/ stock_df.isNone

C12_PlanOnlyWhenOptimal ==
    /\ ~NoPlanShown => (outcome = "plan" /\ solved /\ status = "Optimal")
    /\ (solved /\ status # "Optimal") =>
          /\ outcome = "failed"
          /\ NoPlanShown
          /\ status \in {sol.status : sol \in Solve(data.rows, required_nutrients)}
    /\ (RequestRan /\ MissingTable) =>
          (outcome = "error" /\ ~built /\ ~solved /\ NoPlanShown)

\* a request aborted on a missing stock table, after the requirement was aggregated
C12_Witness ==
    /\ RequestRan
    /\ ~cost_df.isNone /\ ~nutrition_df.isNone /\ ~check_df.isNone /\ stock_df.isNone
    /\ required_nutrients # FreshRequired
    /\ outcome = "error"
    /\ NoPlanShown

(***************************************************************************)
(* C13.  Every Optimal plan covers each food-basket category that has a    *)
(* package in the joined catalog: some package of the category is bought   *)
(* with quantity >= 1 or is in stock with quantity > 0.                    *)
(***************************************************************************)
CategoryCovered(cat) ==
    \E i \in 1..Len(data.rows) :
        /\ data.rows[i].Food_Basket = cat
        /\ \/ PlanQuantity(data.rows[i].Package_Description) >= 1
           \/ data.rows[i].Quantity_in_Stock_lb > 0

C13_EveryCategoryCovered ==
    outcome = "plan" =>
        \A cat \in BasketSet :
            Len(CatItems(data.rows, cat)) > 0 => CategoryCovered(cat)

(***************************************************************************)
(* C14.  The category-presence constraints restrict nothing: for the model *)
(* of every request, the purchase assignments feasible for the built model *)
(* are those that satisfy the four nutrient constraints alone, so the      *)
(* status and the least cost are the same with and without them.           *)
(***************************************************************************)
NutrientFeasibleSet(d, req) ==
    {q \in Assignments(d) :
        \A n \in 1..Len(NutrientConstraints) :
            NutrientHolds(d, req, q, NutrientConstraints[n])}

C14_PresenceNeverRestricts ==
    built =>
        LET F == FeasibleSet(data.rows, required_nutrients)
            G == NutrientFeasibleSet(data.rows, required_nutrients)
        IN /\ F = G
           /\ (status = "Optimal") = (G # {})
           /\ G # {} => MinObjective(data.rows, F) = MinObjective(data.rows, G)

\* a plan that leaves a category of the catalog without purchase and without stock
C14_Witness ==
    /\ outcome = "plan"
    /\ \E cat \in BasketSet :
          /\ Len(CatItems(data.rows, cat)) > 0
          /\ ~CategoryCovered(cat)
    /\ \E cat \in BasketSet :
          /\ Len(CatItems(data.rows, cat)) > 0
          /\ CategoryCovered(cat)

(***************************************************************************)
(* C15.  The joined catalog of a request holds exactly one record for each *)
(* package description of the cost table whose Food has a nutrition row:   *)
(* cost rows without a nutrition row are dropped, no package description   *)
(* is in more than one joined record, and a record's stock quantity is the *)
(* stock table's quantity for its description, or 0 when it has none.      *)
(***************************************************************************)
HasNutrition(food) == \E k \in 1..Len(nutrition_df.rows) : nutrition_df.rows[k].Food = food

MatchedDescriptions ==
    {cost_df.rows[i].Package_Description :
        i \in {j \in 1..Len(cost_df.rows) : HasNutrition(cost_df.rows[j].Food)}}

StockOf(desc) ==
    LET idx == {k \in 1..Len(stock_df.rows) : stock_df.rows[k].Package_Description = desc}
    IN IF idx = {} THEN {0} ELSE {stock_df.rows[k].Quantity_in_Stock_lb : k \in idx}

C15_OneRecordPerDescription ==
    built =>
        /\ {data.rows[i].Package_Description : i \in 1..Len(data.rows)} = MatchedDescriptions
        /\ \A i \in 1..Len(data.rows) : \A j \in 1..Len(data.rows) :
              data.rows[i].Package_Description = data.rows[j].Package_Description => i = j
        /\ \A i \in 1..Len(data.rows) :
              data.rows[i].Quantity_in_Stock_lb \in StockOf(data.rows[i].Package_Description)

(***************************************************************************)
(* C16.  A request, whatever its outcome, leaves the roster and the cost,  *)
(* nutrition, requirement and stock tables as it found them, and what it   *)
(* shows is computed from them alone, nothing of an earlier request being  *)
(* reused; the roster and the tables change only in Add Member, Clear All  *)
(* Members and the table uploads and resets.  The request is the block of  *)
(* the Generate button (264-465); it finds the session as the top of its   *)
(* run leaves it: the load of the default for a table that is None (the    *)
(* load the resets call) and the read of the workbooks the upload widgets  *)
(* hold.                                                                   *)
(***************************************************************************)
RequestRanNext == outcome' \in {"plan", "failed", "error"}

\* the steps of the buttons that write the session
ButtonWriters == AddMember \/ ClearAllMembers \/ ResetGrocery \/ ResetStock

\* the session changes at most by the top of the run: the default load of a table
\* that was None, and the read of the files the upload widgets hold in the run
TopOfRunOnly ==
    \E f \in DefaultGroceryReads, k \in DefaultStockReads :
        session' = LET s == TopOfRun(Current, grocery_uploader', stock_uploader', f, k)
                   IN <<s.members, s.cost, s.nutrition, s.check, s.stock>>

\* a joined record is a cost row with the nutrition row of its Food and the stock
\* quantity of its description, all of the tables as they are now
FromTablesNow(row) ==
    \E c \in 1..Len(cost_df.rows), n \in 1..Len(nutrition_df.rows) :
        /\ cost_df.rows[c].Food = nutrition_df.rows[n].Food
        /\ row = WithStock(JoinNutrition(cost_df.rows[c], nutrition_df.rows[n]),
                           row.Quantity_in_Stock_lb)
        /\ row.Quantity_in_Stock_lb \in StockOf(row.Package_Description)

\* what the last request shows comes from the roster and the tables as they are now:
\* the floors are those of the roster alone (nothing is carried over from an earlier
\* request), the joined catalog is that of the tables, the plan is of that catalog
NothingReused ==
    /\ \A n \in Nutrients : required_nutrients[n.nutrient] = HouseholdDaily(n)
    /\ IF built
       THEN /\ ~data.isNone
            /\ \A i \in 1..Len(data.rows) : FromTablesNow(data.rows[i])
            /\ \A c \in 1..Len(cost_df.rows) :
                  HasNutrition(cost_df.rows[c].Food) =>
                      \E i \in 1..Len(data.rows) :
                          /\ data.rows[i].Package_Description
                                = cost_df.rows[c].Package_Description
                          /\ data.rows[i].Food = cost_df.rows[c].Food
            /\ \A e \in 1..Len(buy_val) :
                  \E i \in 1..Len(data.rows) :
                      data.rows[i].Package_Description = buy_val[e].food
            /\ \A l \in 1..Len(results) :
                  \E e \in 1..Len(buy_val) :
                      /\ buy_val[e].food = results[l].Package_Description
                      /\ buy_val[e].value = 1000 * results[l].Qty_to_Buy
       ELSE data.isNone /\ buy_val = <<>> /\ results = <<>>

C16_RequestLeavesSession ==
    [][ /\ RequestRanNext =>
             /\ household_members' = household_members
             /\ TopOfRunOnly
             /\ NothingReused'
        /\ ~TopOfRunOnly => ButtonWriters ]_vars

\* a request that ended Infeasible for a roster of two, in a run whose top read the
\* workbook the grocery uploader holds; every table is still loaded
C16_Witness ==
    /\ outcome = "failed"
    /\ status = "Infeasible"
    /\ Len(household_members) >= 2
    /\ ~grocery_uploader.isNone
    /\ cost_df = grocery_uploader.file.Cost_List
    /\ ~cost_df.isNone /\ ~nutrition_df.isNone /\ ~check_df.isNone /\ ~stock_df.isNone
    /\ required_nutrients.Min_Calorie > 0

====
